---- MODULE Spec2Model ----
(***************************************************************************)
(* Model of src/main.py: the property-listing query compiler               *)
(* (list_properties), the availability resolver (get_booked_property_ids), *)
(* the language fallback resolver (pick_lang_value) and the GeoNames       *)
(* autocomplete cache (places_autocomplete).                               *)
(*                                                                         *)
(* Python values are modelled as tagged records so that values of          *)
(* different Python types can be compared:                                 *)
(*   None  -> [t |-> "null"]        str   -> [t |-> "str",  s |-> "..."]   *)
(*   list  -> [t |-> "list", l |-> <<...>>]                                *)
(*   dict  -> [t |-> "dict", d |-> << <<key, value>>, ... >>]  (insertion  *)
(*            order kept, as Python dicts iterate in insertion order)      *)
(***************************************************************************)
EXTENDS Integers, Sequences, FiniteSets, TLC

VARIABLES
    \* ---- pick_lang_value call ----
    pl_value,      \* the argument `value`
    pl_lang,       \* the argument `lang`
    pl_after,      \* the object passed as `value`, as it is after the call
    pl_result,     \* the returned value
    pl_done,       \* TRUE once the call has returned
    \* ---- list_properties request ----
    bookings,      \* the bookings collection (a set of booking documents)
    req,           \* the query-string arguments of the request
    resp,          \* the response of the handler (status 0: not yet handled)
    \* ---- places_autocomplete / places_cache ----
    places_cache,  \* the places_cache collection (a set of documents)
    now,           \* datetime.utcnow(), in seconds
    geonames_user, \* whether os.getenv("GEONAMES_USER") is set
    pc,            \* per request: position in places_autocomplete
    rkey,          \* per request: cache_key
    rout,          \* per request: the transformed provider payload `out`
    rresp,         \* per request: the response sent
    rinfo,         \* per request: the path taken (cache entry seen, upstream outcome, write)
    upstream_calls,\* number of requests.get calls made so far
    last_upsert    \* per cache key: the fields set by the last update_one

vars_lang  == <<pl_value, pl_lang, pl_after, pl_result, pl_done>>
vars_list  == <<bookings, req, resp>>
vars_cache == <<places_cache, now, geonames_user, pc, rkey, rout, rresp, rinfo,
                upstream_calls, last_upsert>>
vars == <<vars_lang, vars_list, vars_cache>>

Null == [t |-> "null"]
Str(s) == [t |-> "str", s |-> s]
List(l) == [t |-> "list", l |-> l]
Dict(d) == [t |-> "dict", d |-> d]

\* Python truthiness of a modelled value (None, "", [] and {} are falsy).
Truthy(v) ==
    CASE v.t = "null" -> FALSE
      [] v.t = "str"  -> v.s # ""
      [] v.t = "list" -> Len(v.l) > 0
      [] v.t = "dict" -> Len(v.d) > 0
      [] OTHER        -> TRUE

(***************************************************************************)
(* i18n helpers                                                            *)
(***************************************************************************)
SUPPORTED_LANGS == {"en", "he"}
DEFAULT_LANG == "en"

\* `key in value` and `value[key]` for a modelled dict.
HasKey(d, k) == \E i \in 1..Len(d) : d[i][1] = k
Get(d, k) == d[CHOOSE i \in 1..Len(d) : d[i][1] = k][2]

\* `for v in value.values(): if v: return v` -- the first truthy entry in
\* iteration order, None when there is none.
FirstTruthy(d) ==
    IF \E i \in 1..Len(d) : Truthy(d[i][2])
    THEN d[CHOOSE i \in 1..Len(d) :
                /\ Truthy(d[i][2])
                /\ \A j \in 1..(i-1) : ~Truthy(d[j][2])][2]
    ELSE Null

\* A plausible slip: the default-language fallback is skipped.
pick_lang_value_NoDefault(value, lang) ==
    IF value.t = "dict"
    THEN IF HasKey(value.d, lang) /\ Truthy(Get(value.d, lang))
         THEN Get(value.d, lang)
         ELSE FirstTruthy(value.d)
    ELSE value

pick_lang_value(value, lang) ==
    IF value.t = "dict"
    THEN IF HasKey(value.d, lang) /\ Truthy(Get(value.d, lang))
         THEN Get(value.d, lang)
         ELSE IF HasKey(value.d, DEFAULT_LANG) /\ Truthy(Get(value.d, DEFAULT_LANG))
              THEN Get(value.d, DEFAULT_LANG)
              ELSE FirstTruthy(value.d)
    ELSE value

(***************************************************************************)
(* Text.  A Python str that is searched by a regex is modelled as a        *)
(* sequence of characters (1-character strings; a Hebrew letter is written *)
(* by its name, e.g. "gimel").                                             *)
(***************************************************************************)
UpperToLower ==
    [c \in {"A","C","D","G","J","L","P","S","V","W"} |->
        CASE c = "A" -> "a" [] c = "C" -> "c" [] c = "D" -> "d" [] c = "G" -> "g"
          [] c = "J" -> "j" [] c = "L" -> "l" [] c = "P" -> "p" [] c = "S" -> "s"
          [] c = "V" -> "v" [] c = "W" -> "w"]

\* case folding done by the regex option "i"
Fold(c) == IF c \in DOMAIN UpperToLower THEN UpperToLower[c] ELSE c

IsSpace(c) == c = " "

\* str.strip()
RECURSIVE LStrip(_)
LStrip(cs) == IF cs # <<>> /\ IsSpace(Head(cs)) THEN LStrip(Tail(cs)) ELSE cs

RECURSIVE RStrip(_)
RStrip(cs) ==
    IF cs # <<>> /\ IsSpace(cs[Len(cs)]) THEN RStrip(SubSeq(cs, 1, Len(cs) - 1)) ELSE cs

Strip(cs) == RStrip(LStrip(cs))

\* str.split(","): the pieces between commas (empty pieces are kept)
RECURSIVE SplitComma(_)
SplitComma(cs) ==
    IF \E i \in 1..Len(cs) : cs[i] = ","
    THEN LET i == CHOOSE k \in 1..Len(cs) :
                     cs[k] = "," /\ \A m \in 1..(k-1) : cs[m] # ","
         IN  <<SubSeq(cs, 1, i - 1)>> \o SplitComma(SubSeq(cs, i + 1, Len(cs)))
    ELSE <<cs>>

\* str.lower() on the category identifiers
LowerStr(cs) == [i \in 1..Len(cs) |-> Fold(cs[i])]

(***************************************************************************)
(* Regular expressions.  A pattern is a set of alternatives, each a        *)
(* sequence of tokens [c, any, q]: the character c (or any character when  *)
(* `any`), taken once (q = "one"), optionally ("opt", the regex ?) or any  *)
(* number of times ("star", the regex * ).                                 *)
(***************************************************************************)
Lit(c) == [c |-> c, any |-> FALSE, q |-> "one"]
Opt(c) == [c |-> c, any |-> FALSE, q |-> "opt"]
OptAny == [c |-> "", any |-> TRUE, q |-> "opt"]
StarSpace == [c |-> " ", any |-> FALSE, q |-> "star"]

\* re.escape(s) of a text without regex metacharacters: the literal itself
Escape(cs) == {[i \in 1..Len(cs) |-> Lit(cs[i])]}

RECURSIVE MatchHere(_, _, _, _)
MatchHere(text, i, pat, j) ==
    IF j > Len(pat) THEN TRUE
    ELSE LET tok == pat[j]
             hit == i <= Len(text) /\ (tok.any \/ Fold(text[i]) = Fold(tok.c))
         IN  CASE tok.q = "one"  -> hit /\ MatchHere(text, i + 1, pat, j + 1)
               [] tok.q = "opt"  -> \/ MatchHere(text, i, pat, j + 1)
                                    \/ hit /\ MatchHere(text, i + 1, pat, j + 1)
               [] tok.q = "star" -> \/ MatchHere(text, i, pat, j + 1)
                                    \/ hit /\ MatchHere(text, i + 1, pat, j)

\* {"$regex": rx, "$options": "i"} on one string: an unanchored search
RegexSearch(text, rx) ==
    \E pat \in rx : \E i \in 1..(Len(text) + 1) : MatchHere(text, i, pat, 1)

(***************************************************************************)
(* Predicates of the catalog store.                                        *)
(*   Rx(field, rx)        {field: {"$regex": rx, "$options": "i"}}         *)
(*   Cmp(field, op, n)    {field: {op: n}}                                 *)
(*   Or(seq)              {"$or": [ ... ]}                                 *)
(***************************************************************************)
Rx(field, rx) == [node |-> "rx", field |-> field, rx |-> rx]
Cmp(field, op, n) == [node |-> "cmp", field |-> field, op |-> op, n |-> n]
Or(seq) == [node |-> "or", of |-> seq]

\* the strings a document holds at a dotted path (none when the path is missing;
\* an array field gives its elements)
TextsAt(doc, field) ==
    CASE field = "title.en"     -> doc.title_en
      [] field = "title.he"     -> doc.title_he
      [] field = "region.en"    -> doc.region_en
      [] field = "region.he"    -> doc.region_he
      [] field = "amenities.en" -> doc.amen_en
      [] field = "amenities.he" -> doc.amen_he
      [] OTHER                  -> {}

NumAt(doc, field) ==
    CASE field = "price"     -> doc.price
      [] field = "maxGuests" -> doc.maxGuests

RECURSIVE MatchNode(_, _)
MatchNode(doc, n) ==
    CASE n.node = "rx"  -> \E text \in TextsAt(doc, n.field) : RegexSearch(text, n.rx)
      [] n.node = "cmp" -> IF n.op = "$gte" THEN NumAt(doc, n.field) >= n.n
                           ELSE NumAt(doc, n.field) <= n.n
      [] n.node = "or"  -> \E i \in 1..Len(n.of) : MatchNode(doc, n.of[i])

(***************************************************************************)
(* The catalog store: geo predicates, the properties collection and the    *)
(* find / count_documents / distinct operations the handler calls.         *)
(***************************************************************************)
EARTH_RADIUS_M == 6378137

Unset == [set |-> FALSE]
Set(v) == [set |-> TRUE, v |-> v]

\* {"$near": {"$geometry": {"type": "Point", "coordinates": c}, "$maxDistance": m}}
Near(c, m) == [op |-> "$near", coordinates |-> c, maxDistance |-> m]
\* {"$geoWithin": {"$centerSphere": [c, num / den]}}: the angular radius is kept as
\* the exact quotient num / den
GeoWithin(c, num, den) == [op |-> "$geoWithin", coordinates |-> c, num |-> num, den |-> den]

Abs(x) == IF x < 0 THEN -x ELSE x

\* Distance between two points, in tenths of a metre.  Coordinates are kept on
\* an integer grid whose unit is a tenth of a metre, and the distance along
\* the grid stands for the store's distance on the sphere.
DistDm(a, b) == Abs(a[1] - b[1]) + Abs(a[2] - b[2])

MatchGeo(doc, g) ==
    /\ doc.geo # <<>>
    /\ IF g.op = "$near"
       THEN DistDm(doc.geo, g.coordinates) <= 10 * g.maxDistance
       ELSE \* dist_m / EARTH_RADIUS_M <= num / den
            DistDm(doc.geo, g.coordinates) * g.den <= 10 * g.num * EARTH_RADIUS_M

\* Whether a document satisfies a query: the conjunction of the keys it holds.
Matches(doc, query) ==
    /\ query.or.set => MatchNode(doc, Or(query.or.v))
    /\ \A i \in 1..Len(query.and) : MatchNode(doc, query.and[i])
    /\ query.maxGuests.set => doc.maxGuests >= query.maxGuests.v
    /\ query.price.gte.set => doc.price >= query.price.gte.v
    /\ query.price.lte.set => doc.price <= query.price.lte.v
    /\ query.geo.set => MatchGeo(doc, query.geo.v)
    /\ query.nin.set => doc.id \notin query.nin.v

\* texts (Hebrew words are written letter name by letter name)
T_Villa == <<"V","i","l","l","a">>
T_Cabin == <<"C","a","b","i","n">>
T_Loft == <<"L","o","f","t">>
T_Galil == <<"G","a","l","i","l">>
T_Spa == <<"S","p","a">>
T_WiFi == <<"W","i","-","F","i">>
T_Pool == <<"P","o","o","l">>
T_DogFriendly == <<"D","o","g"," ","f","r","i","e","n","d","l","y">>
T_SeaView == <<"S","e","a"," ","v","i","e","w">>
H_Spa == <<"samekh","pe","alef">>
H_Jacuzzi == <<"gimel","geresh","qof","vav","zayin","yod">>
H_Nof == <<"nun","vav","pe_sofit">>

\* The properties collection (read-only for this program).  Identifiers are
\* numbered in creation order, as ObjectIds are ordered.
Catalog ==
    { [id |-> 1, price |-> 300, maxGuests |-> 2, geo |-> <<340, 320>>,
       title_en |-> {T_Villa}, title_he |-> {}, region_en |-> {T_Galil}, region_he |-> {},
       amen_en |-> {T_Spa, T_WiFi}, amen_he |-> {}],
      [id |-> 2, price |-> 100, maxGuests |-> 4, geo |-> <<340, 327>>,
       title_en |-> {T_Cabin}, title_he |-> {}, region_en |-> {}, region_he |-> {},
       amen_en |-> {T_Spa}, amen_he |-> {H_Nof}],
      [id |-> 3, price |-> 800, maxGuests |-> 6, geo |-> <<355, 320>>,
       title_en |-> {T_Villa}, title_he |-> {}, region_en |-> {T_Galil}, region_he |-> {},
       amen_en |-> {T_Pool, T_DogFriendly}, amen_he |-> {H_Spa}],
      [id |-> 4, price |-> 100, maxGuests |-> 3, geo |-> <<>>,
       title_en |-> {T_Loft}, title_he |-> {}, region_en |-> {}, region_he |-> {},
       amen_en |-> {T_WiFi, T_SeaView}, amen_he |-> {H_Jacuzzi}],
      [id |-> 5, price |-> 200, maxGuests |-> 2, geo |-> <<340, 320>>,
       title_en |-> {T_Cabin}, title_he |-> {}, region_en |-> {}, region_he |-> {},
       amen_en |-> {}, amen_he |-> {}] }

\* count_documents(query)
CountDocuments(query) == Cardinality({doc \in Catalog : Matches(doc, query)})

\* The documents of S in the order given by the strict total order Before.
OrderedBy(S, Before(_, _)) ==
    [i \in 1..Cardinality(S) |->
        CHOOSE x \in S : Cardinality({y \in S : Before(y, x)}) = i - 1]

\* cursor.sort(sort_spec): sort_spec is <<key, direction>> pairs, first key first
SortBefore(a, b, sort_spec) ==
    LET val(d, key) == IF key = "price" THEN d.price ELSE d.id
        lt(key, dir) == IF dir = 1 THEN val(a, key) < val(b, key)
                        ELSE val(a, key) > val(b, key)
    IN  \E i \in 1..Len(sort_spec) :
            /\ lt(sort_spec[i][1], sort_spec[i][2])
            /\ \A j \in 1..(i-1) : val(a, sort_spec[j][1]) = val(b, sort_spec[j][1])

\* $near returns the documents nearest first (equal distances in natural,
\* that is insertion, order)
NearBefore(a, b, c) ==
    \/ DistDm(a.geo, c) < DistDm(b.geo, c)
    \/ DistDm(a.geo, c) = DistDm(b.geo, c) /\ a.id < b.id

\* find(query) [.sort(sort_spec)] .skip(offset).limit(limit), as identifiers
Find(query, sorted, sort_spec, offset, limit) ==
    LET hits == {doc \in Catalog : Matches(doc, query)}
        byNear == query.geo.set /\ query.geo.v.op = "$near"
        all == IF sorted
               THEN OrderedBy(hits, LAMBDA a, b : SortBefore(a, b, sort_spec))
               ELSE IF byNear
                    THEN OrderedBy(hits, LAMBDA a, b : NearBefore(a, b, query.geo.v.coordinates))
                    ELSE OrderedBy(hits, LAMBDA a, b : a.id < b.id)
        last == IF offset + limit < Len(all) THEN offset + limit ELSE Len(all)
    IN  [i \in 1..(IF last > offset THEN last - offset ELSE 0) |-> all[offset + i].id]

(***************************************************************************)
(* Query-string arguments.  request.args.get(name) is one of               *)
(*   Absent      the parameter is not given (or is the empty string)       *)
(*   Num(n)      a string that int() / float() parse to n                  *)
(*   Junk        a non-empty string that int() / float() / the date        *)
(*               parsers reject                                            *)
(*   Txt(cs)     a text, as a sequence of characters                       *)
(*   DateArg(d)  a string YYYY-MM-DD naming day d                          *)
(* radiusKm is carried in units of 0.0001 km (a tenth of a metre), so      *)
(* that radius_km * 1000 is n / 10 metres.                                 *)
(***************************************************************************)
Absent == [k |-> "absent"]
Num(n) == [k |-> "num", n |-> n]
Junk == [k |-> "junk"]
Txt(cs) == [k |-> "txt", cs |-> cs]
DateArg(d) == [k |-> "date", d |-> d]

DateTime(d) == [t |-> "datetime", d |-> d]

parse_date_safe(s) ==
    IF s.k = "absent" THEN Null
    ELSE IF s.k = "date" THEN DateTime(s.d)
    ELSE Null

\* ObjectId(b) if not isinstance(b, ObjectId) else b
ToObjectId(b) == b.n

\* {"status": {"$in": allowed}}: None in the list also matches a missing field
StatusIn(b, allowed) ==
    \/ b.status \in allowed
    \/ b.status.t = "missing" /\ Null \in allowed

\* A plausible slip: the overlap test compares the booking's start with the
\* query's start.
get_booked_property_ids_WrongBound(start_dt, end_dt, allowed_statuses, bk) ==
    IF start_dt = Null \/ end_dt = Null THEN {}
    ELSE {ToObjectId(b.property_id) :
            b \in {x \in bk : /\ x.start <= start_dt.d
                              /\ x.end >= start_dt.d
                              /\ allowed_statuses # {} => StatusIn(x, allowed_statuses)}}

\* bk is the bookings collection at the time of the call
get_booked_property_ids(start_dt, end_dt, allowed_statuses, bk) ==
    IF start_dt = Null \/ end_dt = Null THEN {}
    ELSE {ToObjectId(b.property_id) :
            b \in {x \in bk : /\ x.start <= end_dt.d
                              /\ x.end >= start_dt.d
                              /\ allowed_statuses # {} => StatusIn(x, allowed_statuses)}}

(***************************************************************************)
(* _cat_filter                                                             *)
(***************************************************************************)
Lits(cs) == [i \in 1..Len(cs) |-> Lit(cs[i])]

RX_JACUZZI_EN == {<<Lit("j"), Lit("a"), Lit("c"), Lit("u"), Lit("z"), Opt("z"), Lit("i")>>}
RX_JACUZZI_HE == {<<Lit("gimel"), OptAny, Lit("qof"), Lit("vav"), Lit("zayin"), Lit("yod")>>}
RX_VIEW_EN ==
    { Lits(<<"v","i","e","w">>), Lits(<<"m","o","u","n","t","a","i","n">>),
      Lits(<<"s","e","a">>) \o <<StarSpace>> \o Lits(<<"v","i","e","w">>),
      Lits(<<"s","c","e","n","i","c">>) }
RX_VIEW_HE == {Lits(H_Nof)}
RX_DOGS_EN == {Lits(<<"d","o","g">>), Lits(<<"p","e","t">>)}
RX_DOGS_HE == {Lits(<<"het","yod","vav","tav">>), Lits(<<"kaf","lamed","bet">>)}
RX_LUXURY_EN == RX_JACUZZI_EN \cup {Lits(<<"p","o","o","l">>), Lits(<<"s","p","a">>)}
RX_LUXURY_HE ==
    RX_JACUZZI_HE \cup {Lits(<<"bet","resh","yod","kaf","he">>), Lits(H_Spa)}

C_jacuzzi == <<"j","a","c","u","z","z","i">>
C_view == <<"v","i","e","w">>
C_dogs == <<"d","o","g","s">>
C_family == <<"f","a","m","i","l","y">>
C_romantic == <<"r","o","m","a","n","t","i","c">>
C_luxury == <<"l","u","x","u","r","y">>

NoFilter == [node |-> "none"]

_cat_filter(cat_id, luxury_min_price) ==
    LET c == LowerStr(Strip(cat_id))
    IN  CASE c = <<>>       -> NoFilter
          [] c = C_jacuzzi  -> Or(<<Rx("amenities.en", RX_JACUZZI_EN),
                                    Rx("amenities.he", RX_JACUZZI_HE)>>)
          [] c = C_view     -> Or(<<Rx("amenities.en", RX_VIEW_EN),
                                    Rx("amenities.he", RX_VIEW_HE)>>)
          [] c = C_dogs     -> Or(<<Rx("amenities.en", RX_DOGS_EN),
                                    Rx("amenities.he", RX_DOGS_HE)>>)
          [] c = C_family   -> Cmp("maxGuests", "$gte", 4)
          [] c = C_romantic -> Cmp("maxGuests", "$lte", 2)
          [] c = C_luxury   -> Or(<<Cmp("price", "$gte", luxury_min_price),
                                    Or(<<Rx("amenities.en", RX_LUXURY_EN),
                                         Rx("amenities.he", RX_LUXURY_HE)>>)>>)
          [] OTHER          -> NoFilter

(***************************************************************************)
(* list_properties                                                         *)
(***************************************************************************)
StrArg(v) == [k |-> "str", v |-> v]
\* near = "a,b,...": the pieces of near.split(","), each Num(n) or Junk
NearArg(parts) == [k |-> "near", parts |-> parts]

ASCENDING == 1
DESCENDING == -1

TextOf(arg) == IF arg.k = "txt" THEN Strip(arg.cs) ELSE <<>>

_resolve_lang(r) ==
    LET given == IF r.lang.k = "str" THEN r.lang.v ELSE ""
        lang == IF given # "" THEN given
                ELSE IF r.acceptLanguageHe THEN "he" ELSE DEFAULT_LANG
    IN  IF lang \in SUPPORTED_LANGS THEN lang ELSE DEFAULT_LANG

NoQuery == [k |-> "none"]

\* abort(code, description), and an exception no handler catches (Flask
\* answers 500 Internal Server Error)
Response(status, description, lang) ==
    [status |-> status, description |-> description, lang |-> lang,
     query |-> NoQuery, query_for_count |-> NoQuery, use_near |-> FALSE,
     sort_spec |-> <<>>, sorted |-> FALSE, total |-> 0, items |-> <<>>, reads |-> {}]

Abort(status, description) == Response(status, description, "")
Unhandled == Response(500, "Internal Server Error", "")

\* lines 258-270: the text search clause
TextSearch(q_raw) ==
    IF q_raw # <<>>
    THEN LET rx == Escape(q_raw)
         IN  Set(<<Rx("title.en", rx), Rx("title.he", rx), Rx("title", rx),
                   Rx("location.en", rx), Rx("location.he", rx),
                   Rx("region.en", rx), Rx("region.he", rx),
                   Rx("location.displayName.en", rx), Rx("location.displayName.he", rx),
                   Rx("location.displayName", rx)>>)
    ELSE Unset

\* lines 272-281: what the region filter appends to $and
RegionFilter(region) ==
    IF region # <<>>
    THEN LET rrx == Escape(region)
         IN  <<Or(<<Rx("region.en", rrx), Rx("region.he", rrx),
                    Rx("location.displayName.en", rrx), Rx("location.displayName.he", rrx),
                    Rx("location.displayName", rrx)>>)>>
    ELSE <<>>

\* lines 306-315: what the amenities filter appends to $and
AmenityFilter(amenities_raw) ==
    IF amenities_raw.k = "txt" /\ amenities_raw.cs # <<>>
    THEN LET pieces == SplitComma(amenities_raw.cs)
             stripped == [i \in 1..Len(pieces) |-> Strip(pieces[i])]
             amen_list == SelectSeq(stripped, LAMBDA a : a # <<>>)
             am_q == [i \in 1..(2 * Len(amen_list)) |->
                        LET rx == Escape(amen_list[(i + 1) \div 2])
                        IN  IF i % 2 = 1 THEN Rx("amenities.en", rx)
                            ELSE Rx("amenities.he", rx)]
         IN  IF amen_list # <<>> THEN <<Or(am_q)>> ELSE <<>>
    ELSE <<>>

\* lines 340-352: what the category filters append to $and
CategoryFilter(category_single, categories_raw, cat_mode, luxury_min_price) ==
    LET one == IF category_single # <<>> THEN <<category_single>> ELSE <<>>
        more == IF categories_raw # <<>>
                THEN SelectSeq(SplitComma(categories_raw), LAMBDA c : Strip(c) # <<>>)
                ELSE <<>>
        cat_ids == one \o more
        found == [i \in 1..Len(cat_ids) |-> _cat_filter(cat_ids[i], luxury_min_price)]
        cat_filters == SelectSeq(found, LAMBDA f : f # NoFilter)
    IN  IF cat_filters # <<>>
        THEN IF cat_mode = "all" THEN cat_filters ELSE <<Or(cat_filters)>>
        ELSE <<>>

\* lines 317-338: the geospatial filter; gives use_near, coords_for_within,
\* max_m and the location.geo key.  radius_dm is radius_km in tenths of a metre.
GeoFilter(near, radius_dm) ==
    LET none == [use_near |-> FALSE, coords_for_within |-> <<>>, max_m |-> Unset, geo |-> Unset]
    IN  IF near.k = "near" /\ radius_dm > 0
        THEN IF Len(near.parts) = 2 /\ \A i \in 1..2 : near.parts[i].k = "num"
             THEN LET lat == near.parts[1].n
                      lon == near.parts[2].n
                      \* int(radius_km * 1000)
                      max_m == radius_dm \div 10
                  IN  [use_near |-> TRUE, coords_for_within |-> <<lon, lat>>,
                       max_m |-> Set(max_m), geo |-> Set(Near(<<lon, lat>>, max_m))]
             ELSE none   \* except Exception: pass
        ELSE none

\* lines 360-365
SortSpec(sort_param) ==
    IF sort_param = "price_asc" THEN << <<"price", ASCENDING>>, <<"_id", DESCENDING>> >>
    ELSE IF sort_param = "price_desc" THEN << <<"price", DESCENDING>>, <<"_id", DESCENDING>> >>
    ELSE << <<"_id", DESCENDING>> >>

\* lines 367-374: price sort with a radius swaps $near for $geoWithin
\* A plausible slip: the swap is made for ascending price only.
PriceSortGeo_AscOnly(g, sort_param) ==
    IF g.use_near /\ sort_param \in {"price_asc"}
       /\ g.coords_for_within # <<>> /\ g.max_m.set
    THEN [g EXCEPT !.geo = Set(GeoWithin(g.coords_for_within, g.max_m.v, EARTH_RADIUS_M)),
                   !.use_near = FALSE]
    ELSE g

PriceSortGeo(g, sort_param) ==
    IF g.use_near /\ sort_param \in {"price_asc", "price_desc"}
       /\ g.coords_for_within # <<>> /\ g.max_m.set
    THEN [g EXCEPT !.geo = Set(GeoWithin(g.coords_for_within, g.max_m.v, EARTH_RADIUS_M)),
                   !.use_near = FALSE]
    ELSE g

\* lines 381-396: the count-safe query
\* A plausible slip: the query is handed to the count as it is.
QueryForCount_NoSwap(query) == query

QueryForCount(query) ==
    IF query.geo.set /\ query.geo.v.op = "$near"
    THEN LET coords == query.geo.v.coordinates
             max_m2 == query.geo.v.maxDistance
         IN  IF coords # <<>>
             THEN [query EXCEPT !.geo = Set(GeoWithin(coords, max_m2, EARTH_RADIUS_M))]
             ELSE [query EXCEPT !.geo = Unset]
    ELSE query

ALLOWED_STATUSES == {Str("confirmed"), Str("paid"), Null}

Clamp(lo, x, hi) == IF x < lo THEN lo ELSE IF x > hi THEN hi ELSE x

\* The part of the handler after argument parsing and validation (lines
\* 258-408).  bk is the bookings collection at the time of the request.
BuildAndRun(r, bk, lang, limit, offset, start_dt, end_dt, luxury_min_price, radius_dm) ==
    LET sort_param == IF r.sort.k = "str" THEN r.sort.v ELSE "new"
        cat_mode == IF r.catMode.k = "str" THEN r.catMode.v ELSE "any"
        ands == RegionFilter(TextOf(r.region))
                  \o AmenityFilter(r.amenities)
                  \o CategoryFilter(TextOf(r.category), TextOf(r.categories),
                                    cat_mode, luxury_min_price)
        g0 == GeoFilter(r.near, radius_dm)
        dated == Truthy(start_dt) /\ Truthy(end_dt)
        booked_ids == IF dated
                      THEN get_booked_property_ids(start_dt, end_dt, ALLOWED_STATUSES, bk)
                      ELSE {}
        sort_spec == SortSpec(sort_param)
        g == PriceSortGeo(g0, sort_param)
        query == [or |-> TextSearch(TextOf(r.q)),
                  and |-> ands,
                  maxGuests |-> IF r.guests.k = "num" THEN Set(r.guests.n) ELSE Unset,
                  price |-> [gte |-> IF r.minPrice.k = "num" THEN Set(r.minPrice.n) ELSE Unset,
                             lte |-> IF r.maxPrice.k = "num" THEN Set(r.maxPrice.n) ELSE Unset],
                  geo |-> g.geo,
                  nin |-> IF booked_ids # {} THEN Set(booked_ids) ELSE Unset]
        query_for_count == QueryForCount(query)
        sorted == ~g.use_near /\ sort_spec # <<>>
    IN  [status |-> 200, description |-> "", lang |-> lang,
         query |-> query, query_for_count |-> query_for_count,
         use_near |-> g.use_near, sort_spec |-> sort_spec, sorted |-> sorted,
         total |-> CountDocuments(query_for_count),
         items |-> Find(query, sorted, sort_spec, offset, limit),
         reads |-> (IF dated THEN {"bookings.distinct"} ELSE {})
                      \cup {"count_documents", "find"}]

\* line 255
DatesRejected(start_dt, end_dt) ==
    Truthy(start_dt) /\ Truthy(end_dt) /\ end_dt.d < start_dt.d

list_properties(r, bk) ==
    \* lines 194, 195, 211: int() / float() outside any try
    IF r.limit.k = "junk" \/ r.offset.k = "junk" \/ r.luxuryMinPrice.k = "junk"
    THEN Unhandled
    ELSE
    LET lang == _resolve_lang(r)
        limit == Clamp(1, IF r.limit.k = "num" THEN r.limit.n ELSE 30, 100)
        offset == IF r.offset.k = "num" /\ r.offset.n > 0 THEN r.offset.n ELSE 0
        luxury_min_price == IF r.luxuryMinPrice.k = "num" THEN r.luxuryMinPrice.n ELSE 700
        start_dt == parse_date_safe(r.start)
        end_dt == parse_date_safe(r.end)
    IN  IF DatesRejected(start_dt, end_dt)
        THEN Abort(400, "end date must be >= start date")
        ELSE IF r.guests.k = "junk" THEN Abort(400, "invalid guests value")
        ELSE IF r.minPrice.k = "junk" THEN Abort(400, "invalid minPrice")
        ELSE IF r.maxPrice.k = "junk" THEN Abort(400, "invalid maxPrice")
        \* line 323: float() outside the try
        ELSE IF r.radiusKm.k = "junk" THEN Unhandled
        ELSE BuildAndRun(r, bk, lang, limit, offset, start_dt, end_dt, luxury_min_price,
                         IF r.radiusKm.k = "num" THEN r.radiusKm.n ELSE 0)

(***************************************************************************)
(* States of the parts a specification does not exercise.                  *)
(***************************************************************************)
DefaultReq ==
    [lang |-> Absent, acceptLanguageHe |-> FALSE, q |-> Absent, limit |-> Absent,
     offset |-> Absent, sort |-> Absent, start |-> Absent, end |-> Absent,
     guests |-> Absent, minPrice |-> Absent, maxPrice |-> Absent, amenities |-> Absent,
     region |-> Absent, category |-> Absent, categories |-> Absent, catMode |-> Absent,
     luxuryMinPrice |-> Absent, near |-> Absent, radiusKm |-> Absent]

NoResponse == Response(0, "", "")

ListIdleState ==
    /\ bookings = {}
    /\ req = DefaultReq
    /\ resp = NoResponse

CacheIdleState ==
    /\ places_cache = {}
    /\ now = 0
    /\ geonames_user = TRUE
    /\ pc = <<>>
    /\ rkey = <<>>
    /\ rout = <<>>
    /\ rresp = <<>>
    /\ rinfo = <<>>
    /\ upstream_calls = 0
    /\ last_upsert = <<>>

(***************************************************************************)
(* Specification SpecLang: one call of pick_lang_value on an input drawn   *)
(* from bounded sets.                                                      *)
(***************************************************************************)
MaxDictLen == 2

LangKeys == {"en", "he", "fr"}
EntryVals == {Null, Str(""), Str("x"), Str("y"), List(<<>>), List(<<"a">>)}

\* dicts: insertion-ordered, keys unique
DictBodies ==
    UNION {{d \in [1..n -> LangKeys \X EntryVals] :
              \A i, j \in 1..n : i # j => d[i][1] # d[j][1]} : n \in 0..MaxDictLen}

LangValues == {Dict(d) : d \in DictBodies} \cup EntryVals \cup {[t |-> "num", n |-> 0]}

LangIdleState ==
    /\ pl_value = Null
    /\ pl_lang = DEFAULT_LANG
    /\ pl_after = Null
    /\ pl_result = Null
    /\ pl_done = FALSE

InitLang ==
    /\ pl_value \in LangValues
    /\ pl_lang \in LangKeys
    /\ pl_after = pl_value
    /\ pl_result = Null
    /\ pl_done = FALSE
    /\ ListIdleState
    /\ CacheIdleState

\* The call: the function body has no assignment to `value` or to any of its
\* entries, so the object passed is left as it was.
PickLang ==
    /\ ~pl_done
    /\ pl_result' = pick_lang_value(pl_value, pl_lang)
    /\ pl_after' = pl_value
    /\ pl_done' = TRUE
    /\ UNCHANGED <<pl_value, pl_lang, vars_list, vars_cache>>

NextLang == PickLang

SpecLang == InitLang /\ [][NextLang]_vars

\* ---- C9 ----
NonEmptyEntry(v) ==
    \/ v.t = "str" /\ v.s # ""
    \/ v.t = "list" /\ v.l # <<>>

EntriesOf(d, k) == {d[i][2] : i \in {j \in 1..Len(d) : d[j][1] = k}}

\* The same value with list-typed and scalar-typed payloads exchanged
\* (emptiness kept).
SwapKind(v) ==
    CASE v.t = "str"  -> List(IF v.s = "" THEN <<>> ELSE <<v.s>>)
      [] v.t = "list" -> Str(IF v.l = <<>> THEN "" ELSE v.l[1])
      [] OTHER        -> v

SwapDict(v) ==
    IF v.t = "dict"
    THEN Dict([i \in 1..Len(v.d) |-> <<v.d[i][1], SwapKind(v.d[i][2])>>])
    ELSE v

\* C9: pick_lang_value returns, for a per-language mapping, the requested
\* language's entry if present and non-empty, else the default language (en)
\* entry if present and non-empty, else some non-empty entry, else null; for a
\* non-mapping value the value itself.  The input is not modified, and
\* exchanging list-typed and scalar-typed entries exchanges the result alike.
C9_PickLangFallback ==
    pl_done =>
        /\ pl_after = pl_value
        /\ IF pl_value.t = "dict"
           THEN LET d == pl_value.d
                    reqE == {v \in EntriesOf(d, pl_lang) : NonEmptyEntry(v)}
                    defE == {v \in EntriesOf(d, "en") : NonEmptyEntry(v)}
                    anyE == {v \in {d[i][2] : i \in 1..Len(d)} : NonEmptyEntry(v)}
                IN  IF reqE # {} THEN pl_result \in reqE
                    ELSE IF defE # {} THEN pl_result \in defE
                    ELSE IF anyE # {} THEN pl_result \in anyE
                    ELSE pl_result = Null
           ELSE pl_result = pl_value
        /\ pick_lang_value(SwapDict(pl_value), pl_lang)
              = (IF pl_value.t = "dict" THEN SwapKind(pl_result) ELSE pl_result)

\* A call that fell back to the default language although a non-empty entry
\* of another language comes first in the mapping.
C9_Witness ==
    /\ pl_done
    /\ pl_value.t = "dict"
    /\ pl_lang = "he"
    /\ Len(pl_value.d) = 2
    /\ pl_value.d[1] = <<"fr", List(<<"a">>)>>
    /\ pl_value.d[2] = <<"en", Str("x")>>
    /\ pl_result = Str("x")

(***************************************************************************)
(* Specification SpecAvail: one listing request with an availability       *)
(* interval, against a bookings collection drawn from bounded sets.        *)
(***************************************************************************)
MaxDay == 3
MaxBookings == 2

Days == 1..MaxDay
Missing == [t |-> "missing"]
Oid(n) == [rep |-> "oid", n |-> n]
OidStr(n) == [rep |-> "str", n |-> n]

\* Bookings of property 1 (property_id kept as an ObjectId): every interval
\* with a status that is set, every one-day interval with a null or absent
\* status; and a booking of property 2 whose property_id is kept as a string.
BookingPool ==
    {[property_id |-> Oid(1), start |-> s, end |-> e, status |-> st] :
        s \in Days, e \in Days, st \in {Str("confirmed"), Str("cancelled")}}
    \cup {[property_id |-> Oid(1), start |-> s, end |-> s, status |-> st] :
        s \in Days, st \in {Null, Missing}}
    \cup {[property_id |-> OidStr(2), start |-> 2, end |-> 2, status |-> Str("paid")]}

ValidBooking(b) == b.start <= b.end

\* the subsets of S with at most n elements
RECURSIVE SubsetsUpTo(_, _)
SubsetsUpTo(S, n) ==
    IF n = 0 THEN {{}}
    ELSE LET smaller == SubsetsUpTo(S, n - 1)
         IN  smaller \cup {T \cup {x} : T \in smaller, x \in S}

BookingSets == SubsetsUpTo({b \in BookingPool : ValidBooking(b)}, MaxBookings)

DateArgs == {Absent, Junk} \cup {DateArg(d) : d \in Days}

AvailRequests == {[DefaultReq EXCEPT !.start = s, !.end = e] : s \in DateArgs, e \in DateArgs}

InitAvail ==
    /\ bookings \in BookingSets
    /\ req \in AvailRequests
    /\ resp = NoResponse
    /\ LangIdleState
    /\ CacheIdleState

\* GET /api/properties: the handler runs on the request against the
\* collections as they are.
ListProperties ==
    /\ resp.status = 0
    /\ resp' = list_properties(req, bookings)
    /\ UNCHANGED <<bookings, req, vars_lang, vars_cache>>

NextAvail == ListProperties

SpecAvail == InitAvail /\ [][NextAvail]_vars

ItemIds == {resp.items[i] : i \in 1..Len(resp.items)}

ActiveStatus(b) == b.status \in {Str("confirmed"), Str("paid"), Null, Missing}

BlockingBookings(p, queryStart, queryEnd) ==
    {b \in bookings : /\ b.property_id.n = p.id
                      /\ b.start <= queryEnd
                      /\ b.end >= queryStart
                      /\ ActiveStatus(b)}

\* C1: when both dates parse and end >= start, the request is answered and a
\* property is missing from the listing exactly when one of its bookings has
\* start <= queryEnd, end >= queryStart and an active status (confirmed, paid,
\* null or absent); when either bound is missing nothing is excluded.
C1_AvailabilityExclusion ==
    resp.status # 0 =>
        IF req.start.k = "date" /\ req.end.k = "date"
        THEN req.end.d >= req.start.d =>
                /\ resp.status = 200
                /\ \A p \in Catalog :
                      (p.id \notin ItemIds)
                         <=> BlockingBookings(p, req.start.d, req.end.d) # {}
                /\ resp.total = Cardinality(ItemIds)
        ELSE /\ resp.status = 200
             /\ ItemIds = {p.id : p \in Catalog}

\* A request for days 2..2 against an active booking of property 2 and a
\* cancelled overlapping booking of property 1: 2 is excluded, 1 is listed.
C1_Witness ==
    /\ resp.status = 200
    /\ req.start = DateArg(2)
    /\ req.end = DateArg(2)
    /\ \E b \in bookings : b.property_id.n = 1 /\ b.status = Str("cancelled")
                           /\ b.start <= 2 /\ b.end >= 2
    /\ \E b \in bookings : b.property_id.n = 2
    /\ 2 \notin ItemIds
    /\ 1 \in ItemIds

(***************************************************************************)
(* Specification SpecList: one listing request drawn from the request      *)
(* families below (geo and sort; amenities and categories; validation).    *)
(***************************************************************************)
MaxRadiusSteps == 5

\* radiusKm values: 0, 0.0005, 0.0010, ... km (0, 0.5, 1.0, ... metres)
RadiusArgs == {Absent, Junk} \cup {Num(5 * k) : k \in 0..MaxRadiusSteps}

\* near = "320,340" (a property's own position), "320,341", "abc,340",
\* "320" and "320,340,1"
NearArgs ==
    {Absent,
     NearArg(<<Num(320), Num(340)>>), NearArg(<<Num(320), Num(341)>>),
     NearArg(<<Junk, Num(340)>>), NearArg(<<Num(320)>>),
     NearArg(<<Num(320), Num(340), Num(1)>>)}

SortArgs == {Absent, StrArg("new"), StrArg("price_asc"), StrArg("price_desc"), StrArg("rating")}

A_spa == <<"s","p","a">>
A_pool == <<"p","o","o","l">>
A_wifi == <<"w","i","-","f","i">>
A_nof == H_Nof
Comma == <<",">>
Space == <<" ">>

AmenityArgs ==
    {Absent,
     Txt(A_spa),
     Txt(A_spa \o Comma \o A_pool),
     Txt(Space \o A_spa \o Comma \o Space \o A_wifi \o Space),
     Txt(A_wifi \o Comma \o Comma \o A_nof),
     Txt(A_spa \o Comma \o A_wifi \o Comma \o A_pool),
     Txt(Space \o Comma \o Space)}

GeoRequests ==
    {[DefaultReq EXCEPT !.near = n, !.radiusKm = rad, !.sort = so, !.amenities = am,
                        !.guests = g, !.start = d[1], !.end = d[2]] :
        n \in NearArgs, rad \in RadiusArgs, so \in SortArgs,
        am \in {Absent, Txt(A_spa)}, g \in {Absent, Num(3)},
        d \in {<<Absent, Absent>>, <<DateArg(1), DateArg(2)>>}}

CategoryArgs ==
    {Absent, Txt(C_family), Txt(C_luxury \o Comma \o <<"x">>),
     Txt(<<"J","a","c","u","z","z","i">> \o Comma \o Space \o C_romantic),
     Txt(C_view \o Comma \o C_dogs)}

AmenityRequests ==
    {[DefaultReq EXCEPT !.amenities = am, !.q = q, !.region = rg, !.category = c1,
                        !.categories = cs, !.catMode = cm, !.lang = la,
                        !.acceptLanguageHe = al] :
        am \in AmenityArgs, q \in {Absent, Txt(<<"v","i","l">>)},
        rg \in {Absent, Txt(<<"g","a","l","i","l"," ">>)},
        c1 \in {Absent, Txt(C_family)}, cs \in CategoryArgs,
        cm \in {Absent, StrArg("all")}, la \in {Absent, StrArg("he"), StrArg("fr")},
        al \in BOOLEAN}

ValidationRequests ==
    {[DefaultReq EXCEPT !.start = d[1], !.end = d[2], !.limit = li, !.offset = of,
                        !.luxuryMinPrice = lx, !.guests = g, !.minPrice = mn,
                        !.maxPrice = mx, !.radiusKm = rad] :
        d \in {<<DateArg(2), DateArg(1)>>, <<DateArg(1), DateArg(2)>>,
               <<Junk, DateArg(1)>>, <<DateArg(2), DateArg(2)>>},
        li \in {Absent, Num(0), Num(2), Num(500), Junk},
        of \in {Absent, Num(1), Num(-5), Junk},
        lx \in {Absent, Num(900), Junk},
        g \in {Absent, Num(3), Junk},
        mn \in {Absent, Num(150), Junk},
        mx \in {Absent, Num(300), Junk},
        rad \in {Absent, Junk}}

ListRequests == GeoRequests \cup AmenityRequests \cup ValidationRequests

ListBookingSets ==
    {{}, {[property_id |-> Oid(5), start |-> 1, end |-> 1, status |-> Str("confirmed")]}}

InitList ==
    /\ bookings \in ListBookingSets
    /\ req \in ListRequests
    /\ resp = NoResponse
    /\ LangIdleState
    /\ CacheIdleState

NextList == ListProperties

SpecList == InitList /\ [][NextList]_vars

\* ---- the request as the claims read it ----
GeoRequested ==
    /\ req.near.k = "near"
    /\ Len(req.near.parts) = 2
    /\ \A i \in 1..2 : req.near.parts[i].k = "num"
    /\ req.radiusKm.k = "num"
    /\ req.radiusKm.n > 0

\* the requested center in GeoJSON order (lon, lat)
RequestedCenter == <<req.near.parts[2].n, req.near.parts[1].n>>

PriceSortRequested == req.sort \in {StrArg("price_asc"), StrArg("price_desc")}

WithoutGeo(query) == [query EXCEPT !.geo = Unset]

DocOf(id) == CHOOSE d \in Catalog : d.id = id

\* C2: the count predicate never holds the $near lowering: when the item
\* predicate has a geo clause the count predicate holds $geoWithin /
\* $centerSphere with the same center and the same radius, and all other
\* clauses of the two predicates are identical.
C2_CountUsesBounded ==
    resp.status = 200 =>
        LET q == resp.query
            qc == resp.query_for_count
        IN  /\ WithoutGeo(qc) = WithoutGeo(q)
            /\ qc.geo.set <=> q.geo.set
            /\ GeoRequested => q.geo.set
            /\ qc.geo.set =>
                  /\ qc.geo.v.op = "$geoWithin"
                  /\ qc.geo.v.coordinates = q.geo.v.coordinates
                  /\ qc.geo.v.coordinates = RequestedCenter
                  /\ IF q.geo.v.op = "$near"
                     THEN qc.geo.v.num * EARTH_RADIUS_M = q.geo.v.maxDistance * qc.geo.v.den
                     ELSE qc.geo.v = q.geo.v
            /\ resp.total = Cardinality({d \in Catalog : Matches(d, qc)})

\* Items fetched nearest-first with $near while the count ran on $geoWithin.
C2_Witness ==
    /\ resp.status = 200
    /\ resp.query.geo.set
    /\ resp.query.geo.v.op = "$near"
    /\ resp.query_for_count.geo.v.op = "$geoWithin"
    /\ resp.query.and # <<>>
    /\ resp.total >= 2

\* C3: with N amenity terms, every listed property matches EVERY term in its
\* English or Hebrew amenity text.
AmenityTerms ==
    IF req.amenities.k = "txt"
    THEN LET pieces == SplitComma(req.amenities.cs)
         IN  {Strip(pieces[i]) : i \in 1..Len(pieces)} \ {<<>>}
    ELSE {}

HasAmenity(doc, term) ==
    \E text \in doc.amen_en \cup doc.amen_he : RegexSearch(text, Escape(term))

C3_AmenitiesAllTerms ==
    resp.status = 200 =>
        \A id \in ItemIds : \A term \in AmenityTerms : HasAmenity(DocOf(id), term)

\* C6: with a valid center and a positive radius, a price sort puts
\* $geoWithin in the item predicate and the items come in price order with
\* the identifier as tie-break; any other sort keeps $near and no sort is
\* applied.  Without a geo constraint the items are sorted by identifier
\* descending, or by price with the identifier as tie-break when requested.
PriceOrdered(items, dir) ==
    \A i \in 1..(Len(items) - 1) :
        LET a == DocOf(items[i])
            b == DocOf(items[i + 1])
        IN  \/ (IF dir = "asc" THEN a.price < b.price ELSE a.price > b.price)
            \/ a.price = b.price /\ a.id > b.id

IdDescending(items) == \A i \in 1..(Len(items) - 1) : items[i] > items[i + 1]

NearestFirst(items, center) ==
    \A i \in 1..(Len(items) - 1) :
        DistDm(DocOf(items[i]).geo, center) <= DistDm(DocOf(items[i + 1]).geo, center)

ExpectedOrder ==
    IF req.sort = StrArg("price_asc") THEN PriceOrdered(resp.items, "asc")
    ELSE IF req.sort = StrArg("price_desc") THEN PriceOrdered(resp.items, "desc")
    ELSE IdDescending(resp.items)

C6_SortAndGeoLowering ==
    resp.status = 200 =>
        IF GeoRequested
        THEN IF PriceSortRequested
             THEN /\ resp.query.geo.set
                  /\ resp.query.geo.v.op = "$geoWithin"
                  /\ resp.sorted
                  /\ ExpectedOrder
             ELSE /\ resp.query.geo.set
                  /\ resp.query.geo.v.op = "$near"
                  /\ ~resp.sorted
                  /\ NearestFirst(resp.items, RequestedCenter)
        ELSE /\ ~resp.query.geo.set
             /\ resp.sorted
             /\ ExpectedOrder

\* A radius search sorted by descending price that lists three properties.
C6_Witness ==
    /\ resp.status = 200
    /\ GeoRequested
    /\ req.sort = StrArg("price_desc")
    /\ resp.query.geo.v.op = "$geoWithin"
    /\ Len(resp.items) >= 3
    /\ DocOf(resp.items[1]).price > DocOf(resp.items[2]).price

\* C7: a request whose end date is earlier than its start date gets a
\* validation (400) response whatever the other parameters are, and no
\* collection is read.
EndBeforeStart ==
    /\ req.start.k = "date"
    /\ req.end.k = "date"
    /\ req.end.d < req.start.d

C7_EndBeforeStartRejected ==
    (resp.status # 0 /\ EndBeforeStart) => (resp.status = 400 /\ resp.reads = {})

\* C8: for every positive radius R km the angular radius of $centerSphere, in
\* the item predicate under a price sort and in the count predicate, is
\* (R * 1000) / 6378137.0 with R * 1000 neither truncated nor rounded.
\* (req.radiusKm.n / 10 is R * 1000.)
ExactAngularRadius(g) == g.num * 10 * EARTH_RADIUS_M = req.radiusKm.n * g.den

C8_ExactAngularRadius ==
    (resp.status = 200 /\ GeoRequested) =>
        /\ resp.query_for_count.geo.set
        /\ ExactAngularRadius(resp.query_for_count.geo.v)
        /\ PriceSortRequested =>
              /\ resp.query.geo.set
              /\ ExactAngularRadius(resp.query.geo.v)

(***************************************************************************)
(* places_autocomplete and the places_cache collection.                    *)
(*                                                                         *)
(* A request runs in three steps, each atomic on the shared store:         *)
(*   Lookup   lines 481-509: arguments, find_one, freshness, GEONAMES_USER *)
(*   Fetch    lines 511-577: requests.get and the transformation           *)
(*   Store    lines 579-586: update_one(..., upsert=True) and the reply    *)
(* Cache documents carry two fields that are not in the store, ts_by and   *)
(* data_by: the request whose update_one set ts and data.                  *)
(***************************************************************************)
FRESH_SECONDS == 86400

NumReq == 2
MaxTicks == 2
TickSeconds == 43200

Reqs == 1..NumReq

\* ---- the provider's records (GeoNames searchJSON) ----
G_TelAviv ==
    [geonameId |-> 1, name |-> "Tel Aviv", adminName1 |-> "Tel Aviv",
     countryName |-> "Israel", countryCode |-> "IL", lat |-> Num(32), lng |-> Num(34)]
G_TelMond ==
    [geonameId |-> 2, name |-> "Tel Mond", adminName1 |-> "Central District",
     countryName |-> "Israel", countryCode |-> "IL", lat |-> Junk, lng |-> Num(34)]
G_Telalim ==
    [geonameId |-> 3, name |-> "Telalim", adminName1 |-> "",
     countryName |-> "Israel", countryCode |-> "IL", lat |-> Num(30), lng |-> Num(34)]

\* raw.get("geonames", []) or [] of a response that parsed: a body without
\* "geonames" (the provider's own error report) gives the empty list
HitLists == {<<>>, <<G_TelMond, G_Telalim>>}

\* what makes the try block of lines 538-545 raise
UpstreamFailures == {"transport", "timeout", "http_status", "json_parse"}

UpstreamOutcomes ==
    {[kind |-> "ok", hits |-> h] : h \in HitLists}
    \cup {[kind |-> f, hits |-> <<>>] : f \in UpstreamFailures}

\* lines 550-577.  display is ", ".join(parts), kept as the parts.
Transform(hits, lang) ==
    LET usable == SelectSeq(hits, LAMBDA h : h.lat.k = "num" /\ h.lng.k = "num")
        parts(h) == IF lang = "he" THEN <<h.name, h.adminName1>>
                    ELSE <<h.name, h.adminName1, h.countryName>>
    IN  [i \in 1..Len(usable) |->
            LET h == usable[i]
            IN  [lat |-> h.lat.n, lon |-> h.lng.n, name |-> h.name,
                 admin1 |-> h.adminName1, country |-> h.countryName,
                 countryCode |-> h.countryCode, geonameId |-> h.geonameId,
                 display |-> SelectSeq(parts(h), LAMBDA x : x # "")]]

\* ---- responses ----
Json(body) == [status |-> 200, body |-> body]
ServerError == [status |-> 500, body |-> <<>>]
NoReply == [status |-> 0, body |-> <<>>]

\* A plausible slip: the exception of the provider call is not caught.
UpstreamFailureReply_Raise == ServerError

\* lines 543-545
UpstreamFailureReply == Json(<<>>)

\* ---- arguments and cache key (lines 481-500) ----
PlacesArgs(q, limit, lang) == [q |-> q, limit |-> limit, lang |-> lang]

Q_tel == <<"t","e","l">>

CallArgs ==
    {PlacesArgs(Q_tel, Absent, Absent),
     PlacesArgs(Space \o Q_tel \o Space, Num(8), StrArg("fr")),
     PlacesArgs(Q_tel, Num(20), StrArg("he")),
     PlacesArgs(Space, Absent, Absent),
     PlacesArgs(Q_tel, Junk, Absent)}

CacheKey(a) ==
    LET limit == Clamp(1, IF a.limit.k = "num" THEN a.limit.n ELSE 8, 15)
        given == IF a.lang.k = "str" THEN a.lang.v ELSE "en"
        lang == IF given \in {"en", "he"} THEN given ELSE "en"
    IN  [q |-> Strip(a.q), limit |-> limit, lang |-> lang, country |-> "IL", near |-> ""]

NoKey == [q |-> <<>>, limit |-> 0, lang |-> "", country |-> "", near |-> ""]

\* ---- the store ----
Entries(cache, key) == {d \in cache : d.key = key}

\* find_one(cache_key)
FindOne(cache, key) ==
    IF Entries(cache, key) = {} THEN Unset
    ELSE Set(CHOOSE d \in Entries(cache, key) : TRUE)

\* A plausible slip: insert_one instead of an upsert.
UpdateOneUpsert_Insert(cache, key, ts, data, by) ==
    cache \cup {[key |-> key, ts |-> ts, data |-> data, ts_by |-> by, data_by |-> by]}

\* update_one(cache_key, {"$set": {"ts": ts, "data": data}}, upsert=True)
UpdateOneUpsert(cache, key, ts, data, by) ==
    LET found == FindOne(cache, key)
        doc == [key |-> key, ts |-> ts, data |-> data, ts_by |-> by, data_by |-> by]
    IN  IF found.set THEN (cache \ {found.v}) \cup {doc} ELSE cache \cup {doc}

\* A plausible slip: an entry exactly 24 hours old still counts as fresh.
IsFresh_Inclusive(entry, utcnow) == utcnow - entry.ts <= FRESH_SECONDS

\* line 504
IsFresh(entry, utcnow) == utcnow - entry.ts < FRESH_SECONDS

NoInfo == [seen |-> Unset, at |-> 0, upstream |-> "none", wrote |-> Unset]

\* An entry left by an earlier run of the service (written by request 0).
SeedEntry ==
    [key |-> CacheKey(PlacesArgs(Q_tel, Absent, Absent)), ts |-> 0,
     data |-> Transform(<<G_TelAviv>>, "en"), ts_by |-> 0, data_by |-> 0]

InitCache ==
    /\ places_cache \in {{}, {SeedEntry}}
    /\ now = 0
    /\ geonames_user \in BOOLEAN
    /\ pc = [i \in Reqs |-> "new"]
    /\ rkey = [i \in Reqs |-> NoKey]
    /\ rout = [i \in Reqs |-> <<>>]
    /\ rresp = [i \in Reqs |-> NoReply]
    /\ rinfo = [i \in Reqs |-> NoInfo]
    /\ upstream_calls = 0
    /\ last_upsert = [k \in {} |-> Unset]
    /\ LangIdleState
    /\ ListIdleState

Reply(i, reply, info) ==
    /\ pc' = [pc EXCEPT ![i] = "done"]
    /\ rresp' = [rresp EXCEPT ![i] = reply]
    /\ rinfo' = [rinfo EXCEPT ![i] = info]

\* lines 481-509.  Requests are numbered in the order they arrive.
Lookup(i) ==
    /\ pc[i] = "new"
    /\ \A j \in 1..(i - 1) : pc[j] # "new"
    /\ \E a \in CallArgs :
        LET key == CacheKey(a)
            cached == FindOne(places_cache, key)
            hit == IF ~cached.set THEN "none"
                   ELSE IF IsFresh(cached.v, now) THEN "fresh" ELSE "stale"
            info == [NoInfo EXCEPT !.seen = cached, !.at = now]
        IN  /\ IF Strip(a.q) = <<>>
               THEN Reply(i, Json(<<>>), NoInfo) /\ UNCHANGED rkey
               ELSE IF a.limit.k = "junk"          \* line 486: int() raises
               THEN Reply(i, ServerError, NoInfo) /\ UNCHANGED rkey
               ELSE /\ rkey' = [rkey EXCEPT ![i] = key]
                    /\ IF hit = "fresh"
                       THEN Reply(i, Json(cached.v.data), info)
                       ELSE IF ~geonames_user
                       THEN Reply(i, ServerError, info)
                       ELSE /\ pc' = [pc EXCEPT ![i] = "fetch"]
                            /\ rinfo' = [rinfo EXCEPT ![i] = info]
                            /\ UNCHANGED rresp
    /\ UNCHANGED <<places_cache, now, geonames_user, rout, upstream_calls, last_upsert,
                   vars_lang, vars_list>>

\* A plausible slip: the except branch sets hits = [] and falls through to
\* the transformation and the update_one instead of returning.
Fetch_FallThrough(i) ==
    /\ pc[i] = "fetch"
    /\ upstream_calls' = upstream_calls + 1
    /\ \E o \in UpstreamOutcomes :
        /\ rout' = [rout EXCEPT ![i] = Transform(o.hits, rkey[i].lang)]
        /\ pc' = [pc EXCEPT ![i] = "store"]
        /\ rinfo' = [rinfo EXCEPT ![i] = [rinfo[i] EXCEPT !.upstream = o.kind]]
        /\ UNCHANGED rresp
    /\ UNCHANGED <<places_cache, now, geonames_user, rkey, last_upsert,
                   vars_lang, vars_list>>

\* lines 511-577
Fetch(i) ==
    /\ pc[i] = "fetch"
    /\ upstream_calls' = upstream_calls + 1
    /\ \E o \in UpstreamOutcomes :
        LET info == [rinfo[i] EXCEPT !.upstream = o.kind]
        IN  IF o.kind = "ok"
            THEN /\ rout' = [rout EXCEPT ![i] = Transform(o.hits, rkey[i].lang)]
                 /\ pc' = [pc EXCEPT ![i] = "store"]
                 /\ rinfo' = [rinfo EXCEPT ![i] = info]
                 /\ UNCHANGED rresp
            ELSE /\ Reply(i, UpstreamFailureReply, info)
                 /\ UNCHANGED rout
    /\ UNCHANGED <<places_cache, now, geonames_user, rkey, last_upsert,
                   vars_lang, vars_list>>

\* lines 579-586
Store(i) ==
    /\ pc[i] = "store"
    /\ places_cache' = UpdateOneUpsert(places_cache, rkey[i], now, rout[i], i)
    /\ last_upsert' = [k \in DOMAIN last_upsert \cup {rkey[i]} |->
                          IF k = rkey[i] THEN [ts |-> now, data |-> rout[i], by |-> i]
                          ELSE last_upsert[k]]
    /\ Reply(i, Json(rout[i]), [rinfo[i] EXCEPT !.wrote = Set([ts |-> now, data |-> rout[i]])])
    /\ UNCHANGED <<now, geonames_user, rkey, rout, upstream_calls,
                   vars_lang, vars_list>>

\* time passes
Tick ==
    /\ now < MaxTicks * TickSeconds
    /\ now' = now + TickSeconds
    /\ UNCHANGED <<places_cache, geonames_user, pc, rkey, rout, rresp, rinfo,
                   upstream_calls, last_upsert, vars_lang, vars_list>>

NextCache ==
    \/ \E i \in Reqs : Lookup(i)
    \/ \E i \in Reqs : Fetch(i)
    \/ \E i \in Reqs : Store(i)
    \/ Tick

SpecCache == InitCache /\ [][NextCache]_vars

\* ---- the path of request i, as the claims read it ----
Done(i) == pc[i] = "done"
SawEntry(i) == rinfo[i].seen.set
AgeSeen(i) == rinfo[i].at - rinfo[i].seen.v.ts
SawFresh(i) == SawEntry(i) /\ AgeSeen(i) < 86400
SawStale(i) == SawEntry(i) /\ AgeSeen(i) >= 86400
CalledUpstream(i) == rinfo[i].upstream # "none"
Wrote(i) == rinfo[i].wrote.set

\* what the cache holds was returned by the request that wrote it
EntriesWereReturned ==
    \A d \in places_cache :
        (d.data_by \in Reqs /\ Done(d.data_by)) => rresp[d.data_by] = Json(d.data)

FreshHitServedFromCache(i) ==
    SawFresh(i) =>
        /\ rresp[i] = Json(rinfo[i].seen.v.data)
        /\ ~CalledUpstream(i)
        /\ ~Wrote(i)

C5_UpstreamFailureGivesEmptyList ==
    \A i \in Reqs :
        (/\ Done(i)
         /\ rinfo[i].upstream \in {"transport", "timeout", "http_status", "json_parse"})
        => /\ rkey[i].q # <<>>
           /\ ~SawFresh(i)
           /\ rresp[i] = [status |-> 200, body |-> <<>>]

\* Both kinds of miss ending in a failed provider call.
C5_Witness ==
    \E i, j \in Reqs :
        /\ Done(i) /\ SawStale(i) /\ rinfo[i].upstream = "timeout"
        /\ Done(j) /\ ~SawEntry(j) /\ rinfo[j].upstream = "json_parse"
        /\ rresp[i].status = 200

\* C10: under every interleaving of the requests' steps the cache holds at
\* most one entry per key, the ts and data of an entry were set by one and the
\* same request, and once no request is in flight the entry of a key is the
\* last upsert made for it.
Quiescent == \A i \in Reqs : pc[i] \in {"new", "done"}

C10_LastWriteWins ==
    /\ \A d \in places_cache :
          /\ Cardinality(Entries(places_cache, d.key)) <= 1
          /\ d.ts_by = d.data_by
    /\ Quiescent =>
          \A k \in DOMAIN last_upsert :
              /\ Cardinality(Entries(places_cache, k)) = 1
              /\ \A d \in Entries(places_cache, k) :
                    /\ d.ts = last_upsert[k].ts
                    /\ d.data = last_upsert[k].data
                    /\ d.data_by = last_upsert[k].by

\* Two requests for one key that both missed, both fetched and then both
\* wrote, with different timestamps and payloads.
C10_Witness ==
    \E i, j \in Reqs :
        /\ i # j
        /\ Done(i) /\ Done(j)
        /\ rkey[i] = rkey[j]
        /\ Wrote(i) /\ Wrote(j)
        /\ rinfo[i].at = rinfo[j].at
        /\ ~SawEntry(i) /\ ~SawEntry(j)
        /\ rinfo[i].wrote.v.ts < rinfo[j].wrote.v.ts
        /\ rinfo[i].wrote.v.data # rinfo[j].wrote.v.data
        /\ \A d \in Entries(places_cache, rkey[i]) : d.data_by = j

\* request i got a response from the provider that raised nothing in the
\* try block of lines 538-545
ProviderSucceeded(i) == rinfo[i].upstream = "ok"

\* a step that changes the store is the update_one of a request whose
\* provider call succeeded, and it touches the entry of that request's key only
OnlySuccessfulCallsWrite ==
    places_cache' # places_cache =>
        \E i \in Reqs :
            /\ pc[i] = "store" /\ pc'[i] = "done"
            /\ ProviderSucceeded(i)
            /\ \A d \in places_cache : d.key # rkey[i] => d \in places_cache'
            /\ \A d \in places_cache' : d.key # rkey[i] => d \in places_cache

\* the step on which request i ends without a successful provider response
EndsWithoutProvider(i) ==
    /\ pc[i] # "done" /\ pc'[i] = "done"
    /\ rinfo'[i].upstream # "ok"

\* C11: the step on which a call ends without a successful provider response
\* (empty q, a limit that is no number, GEONAMES_USER unset, a fresh hit, or a
\* provider call that raised) leaves the store exactly as it was, and so does
\* every earlier step of a call; such a call is never the writer of an entry's
\* ts or data, so a call served from the cache is served the payload that a
\* call with a successful provider response returned (or that an earlier run
\* left).
C11_FailedCallLeavesCacheUnchanged ==
    [][/\ OnlySuccessfulCallsWrite
       /\ \A i \in Reqs :
            EndsWithoutProvider(i) =>
                /\ places_cache' = places_cache
                /\ ~rinfo'[i].wrote.set
       /\ \A d \in places_cache' :
            /\ d.ts_by \in Reqs => rinfo'[d.ts_by].upstream = "ok"
            /\ d.data_by \in Reqs => rinfo'[d.data_by].upstream = "ok"
       /\ \A j \in Reqs :
            (pc'[j] = "done" /\ rinfo'[j].seen.set
             /\ rinfo'[j].at - rinfo'[j].seen.v.ts < 86400
             /\ rinfo'[j].seen.v.data_by \in Reqs)
            => /\ rinfo'[rinfo'[j].seen.v.data_by].upstream = "ok"
               /\ rresp'[j] = rresp'[rinfo'[j].seen.v.data_by]
      ]_vars

\* A call that found the entry of an earlier run stale and whose provider call
\* timed out, and a call with an empty q, both answered with the empty list
\* while the store still holds exactly that entry.
C11_Witness ==
    \E i, j \in Reqs :
        /\ i # j
        /\ Done(i) /\ Done(j)
        /\ SawStale(i) /\ rinfo[i].upstream = "timeout"
        /\ rresp[i] = Json(<<>>)
        /\ rkey[j] = NoKey /\ rresp[j] = Json(<<>>)
        /\ places_cache = {SeedEntry}
        /\ rkey[i] = SeedEntry.key
====
